---- MODULE Spec2Model ----
(***************************************************************************)
(* catai: concatenate the text files under some paths for an LLM context.  *)
(*                                                                         *)
(* The model follows the top-level sequence of the Deno entry point        *)
(* (src/unnamed/part_000, lines 330-460): parse the size threshold,        *)
(* resolve the input paths, compute the base directory, apply the include  *)
(* and exclude filters, run the size gate with its prompt, build the       *)
(* output, print the summary and dispatch to the sinks.                    *)
(*                                                                         *)
(* Representation.  A string that the code inspects character by           *)
(* character (the --maxSize value, a line typed at the prompt) is a        *)
(* sequence of one-character strings.  A path is a sequence of segments    *)
(* and a segment is the sequence of its dot-separated parts, so "a.ts" is  *)
(* <<"a", "ts">> and "/proj/src/a.ts" is                                   *)
(* << <<"proj">>, <<"src">>, <<"a", "ts">> >>.  File content is a sequence  *)
(* of runs [ch |-> c, n |-> k] (k copies of the byte c), which lets a file *)
(* be larger than the 8000-byte sample of the classifier.                  *)
(***************************************************************************)
EXTENDS Integers, Sequences, FiniteSets, TLC

VARIABLES
    pc,             \* position in the top-level sequence
    config,         \* the options as given on the command line (never changed)
    opts,           \* the parsed options (opts.yes is mutated by the gate)
    maxFileSize,    \* parseMaxSize(opts.maxSize)
    pathIdx,        \* number of input paths already resolved
    allFiles,       \* resolved absolute file paths
    baseDir,        \* base directory of relative names
    filteredFiles,  \* allFiles after the include / exclude filters
    fileIdx,        \* number of candidates of filteredFiles the gate has left behind
    filesToInclude, \* absolute paths selected for the output
    skippedFiles,   \* display names of the files the operator declined
    evaluated,      \* the candidates the gate has evaluated, in order, as
                    \* [idx |-> index in filteredFiles, fate |-> what became of it]
    prompts,        \* indices of filteredFiles a prompt was written for, in order
    answer,         \* what promptStderr returned for the last prompt
    result,         \* the output body, a sequence of lines
    summary,        \* the summary written to stderr
    stdout,         \* what was written to stdout
    outFile,        \* what was written to the --output file
    clipboard,      \* what the clipboard process received on its stdin
    warnings,       \* warnings and errors written to stderr
    exitCode,       \* the exit code of the process
    args,           \* parseArgs of cli/node.ts: the argument list it is given
    argIdx,         \* parseArgs: its index i into args
    options         \* parseArgs: the options it builds

vars == <<pc, config, opts, maxFileSize, pathIdx, allFiles, baseDir, filteredFiles,
          fileIdx, filesToInclude, skippedFiles, evaluated, prompts, answer,
          result, summary, stdout, outFile, clipboard, warnings, exitCode,
          args, argIdx, options>>

\* the state of parseArgs of cli/node.ts
parser == <<args, argIdx, options>>

(***************************************************************************)
(* Bounds of the model.                                                    *)
(***************************************************************************)
\* the longest list of input paths on the command line
MaxPaths == 2

\* a value that is absent: an option not given, a sink not written, null
None == "<none>"

(***************************************************************************)
(* Sequences.                                                              *)
(***************************************************************************)
Last(s) == s[Len(s)]

Front(s) == SubSeq(s, 1, Len(s) - 1)

Range(s) == {s[i] : i \in 1..Len(s)}

IsPrefix(p, s) == Len(p) <= Len(s) /\ SubSeq(s, 1, Len(p)) = p

\* sequences over S of length lo..hi
SeqsOf(S, lo, hi) == UNION {[1..n -> S] : n \in lo..hi}

(***************************************************************************)
(* Program constants.                                                      *)
(***************************************************************************)
\* directory names the traversal skips
IGNORED == { <<"node_modules">>, <<"", "git">>, <<"", "svn">>, <<"", "hg">>,
             <<"dist">>, <<"build">>, <<"__pycache__">>, <<"", "cache">>,
             <<"", "vscode">>, <<"", "idea">>, <<"vendor">> }

\* extensions (without the dot) that make a file binary without reading it
BINARY_EXT == { "png", "jpg", "jpeg", "gif", "ico", "webp", "bmp", "pdf",
                "zip", "tar", "gz", "rar", "7z", "exe", "dll", "so", "dylib",
                "bin", "mp3", "mp4", "wav", "avi", "mov", "mkv", "woff",
                "woff2", "ttf", "eot", "otf" }

\* the classifier samples the first SampleBytes bytes of a file
SampleBytes == 8000

\* one kilobyte, the multiplier of the k / kb unit
Kilo == 1024

(***************************************************************************)
(* Characters.                                                             *)
(***************************************************************************)
Digits == [c \in {"0", "1", "2", "3", "4", "5", "6", "7", "8", "9"} |->
             CASE c = "0" -> 0 [] c = "1" -> 1 [] c = "2" -> 2 [] c = "3" -> 3
               [] c = "4" -> 4 [] c = "5" -> 5 [] c = "6" -> 6 [] c = "7" -> 7
               [] c = "8" -> 8 [] c = "9" -> 9]

\* the upper-case letters of the model's inputs
UpperToLower == [c \in {"A", "B", "E", "K", "L", "S", "Y"} |->
                   CASE c = "A" -> "a" [] c = "B" -> "b" [] c = "E" -> "e"
                     [] c = "K" -> "k" [] c = "L" -> "l" [] c = "S" -> "s"
                     [] c = "Y" -> "y"]

\* String.prototype.toLowerCase on one character of the model's alphabet
LowerChar(c) == IF c \in DOMAIN UpperToLower THEN UpperToLower[c] ELSE c

\* String.prototype.toLowerCase
toLowerCase(s) == [i \in 1..Len(s) |-> LowerChar(s[i])]

\* the characters String.prototype.trim and trimEnd remove
Whitespace == {" ", "\t", "\n", "\r"}

RECURSIVE trimStart(_)
trimStart(s) ==
    IF s # <<>> /\ Head(s) \in Whitespace THEN trimStart(Tail(s)) ELSE s

RECURSIVE trimEndChars(_)
trimEndChars(s) ==
    IF s # <<>> /\ Last(s) \in Whitespace THEN trimEndChars(Front(s)) ELSE s

\* String.prototype.trim
trim(s) == trimEndChars(trimStart(s))

(***************************************************************************)
(* Paths.  "." and ".." are the segments <<"", "">> and <<"", "", "">>      *)
(* (the parts around their dots are empty).                                *)
(***************************************************************************)
DotSeg == <<"", "">>

DotDotSeg == <<"", "", "">>

\* the process's current working directory, Deno.cwd()
Cwd == << <<"proj">> >>

\* path normalisation: drop ".", let ".." remove the segment before it
RECURSIVE Normalize(_, _)
Normalize(done, rest) ==
    IF rest = <<>> THEN done
    ELSE IF Head(rest) = DotSeg THEN Normalize(done, Tail(rest))
    ELSE IF Head(rest) = DotDotSeg
         THEN Normalize(IF done = <<>> THEN done ELSE Front(done), Tail(rest))
    ELSE Normalize(Append(done, Head(rest)), Tail(rest))

\* @std/path resolve(p): an input path is a record [abs, segs]
resolve(p) == IF p.abs THEN Normalize(<<>>, p.segs) ELSE Normalize(Cwd, p.segs)

\* length of the longest common prefix of two paths
RECURSIVE CommonLen(_, _)
CommonLen(a, b) ==
    IF a = <<>> \/ b = <<>> \/ Head(a) # Head(b) THEN 0
    ELSE 1 + CommonLen(Tail(a), Tail(b))

\* @std/path relative(from, to) on absolute paths, as a sequence of segments
relative(from, to) ==
    LET k == CommonLen(from, to)
    IN  [i \in 1..(Len(from) - k) |-> DotDotSeg] \o SubSeq(to, k + 1, Len(to))

\* the display name of a file: relative(baseDir, file) || file
\* (an absolute name keeps its leading "/", the empty first segment)
AbsName(file) == << <<"">> >> \o file

DisplayName(base, file) ==
    IF relative(base, file) = <<>> THEN AbsName(file) ELSE relative(base, file)

(***************************************************************************)
(* The file system the run sees.  Sizes are chosen around the thresholds   *)
(* the runs use (1KB and the default 100k): a.ts is exactly 1024 bytes.    *)
(***************************************************************************)
Run(c, k) == [ch |-> c, n |-> k]

F_readme == << <<"proj">>, <<"README", "md">> >>
F_a      == << <<"proj">>, <<"src">>, <<"a", "ts">> >>
F_big    == << <<"proj">>, <<"src">>, <<"big", "ts">> >>
F_blob   == << <<"proj">>, <<"src">>, <<"blob", "dat">> >>
F_empty  == << <<"proj">>, <<"src">>, <<"empty", "txt">> >>
F_huge   == << <<"proj">>, <<"src">>, <<"huge", "md">> >>
F_locked == << <<"proj">>, <<"src">>, <<"locked", "txt">> >>
F_logo   == << <<"proj">>, <<"src">>, <<"logo", "PNG">> >>
F_zed    == << <<"proj">>, <<"src">>, <<"zed", "ts">> >>
F_mod    == << <<"proj">>, <<"src">>, <<"node_modules">>, <<"m", "js">> >>

Files == {F_readme, F_a, F_big, F_blob, F_empty, F_huge, F_locked, F_logo,
          F_mod, F_zed}

\* the bytes of each file
Content(f) ==
    CASE f = F_readme -> <<Run("x", 300), Run("\n", 2)>>
      [] f = F_a      -> <<Run("x", 1023), Run("\n", 1)>>
      [] f = F_big    -> <<Run("x", 2047), Run("\n", 1)>>
      [] f = F_blob   -> <<Run("NUL", 800), Run("x", 9200)>>
      [] f = F_empty  -> <<>>
      [] f = F_huge   -> <<Run("x", 200000), Run(" ", 1), Run("\n", 1)>>
      [] f = F_locked -> <<Run("x", 3000)>>
      [] f = F_logo   -> <<Run("x", 5000)>>
      [] f = F_mod    -> <<Run("x", 40)>>
      [] f = F_zed    -> <<Run("x", 20), Run("\n", 3)>>

\* files whose content cannot be read (permission denied)
Unreadable == {F_locked}

RECURSIVE ByteLen(_)
ByteLen(runs) == IF runs = <<>> THEN 0 ELSE Head(runs).n + ByteLen(Tail(runs))

\* Deno.stat(path): a file, a directory, or NotFound
IsFile(p) == p \in Files

IsDirectory(p) == \E f \in Files : Len(p) < Len(f) /\ IsPrefix(p, f)

Exists(p) == IsFile(p) \/ IsDirectory(p)

\* stat.size
Size(f) == ByteLen(Content(f))

(***************************************************************************)
(* Array.prototype.sort() on path strings: order by UTF-16 code units.     *)
(* A path is flattened to its names and separators; NameOrder lists the    *)
(* empty name, the separators "." and "/" and every name of the file       *)
(* system in code-unit order.                                              *)
(***************************************************************************)
NameOrder == <<"", ".", "/", "PNG", "README", "a", "big", "blob", "dat", "empty",
               "huge", "js", "locked", "logo", "m", "md", "node_modules",
               "proj", "src", "ts", "txt", "zed">>

NameRank(n) == CHOOSE i \in 1..Len(NameOrder) : NameOrder[i] = n

RECURSIVE SegTokens(_)
SegTokens(seg) ==
    IF Len(seg) = 1 THEN <<NameRank(seg[1])>>
    ELSE <<NameRank(Head(seg)), NameRank(".")>> \o SegTokens(Tail(seg))

RECURSIVE PathTokens(_)
PathTokens(path) ==
    IF path = <<>> THEN <<>>
    ELSE <<NameRank("/")>> \o SegTokens(Head(path)) \o PathTokens(Tail(path))

RECURSIVE LexLess(_, _)
LexLess(a, b) ==
    IF b = <<>> THEN FALSE
    ELSE IF a = <<>> THEN TRUE
    ELSE IF Head(a) # Head(b) THEN Head(a) < Head(b)
    ELSE LexLess(Tail(a), Tail(b))

PathLess(p, q) == LexLess(PathTokens(p), PathTokens(q))

RECURSIVE SortPaths(_)
SortPaths(S) ==
    IF S = {} THEN <<>>
    ELSE LET m == CHOOSE p \in S : \A q \in S \ {p} : PathLess(p, q)
         IN  <<m>> \o SortPaths(S \ {m})

(***************************************************************************)
(* getFiles (lines 195-208).                                               *)
(***************************************************************************)
\* walk's skip option: a path with a component named in IGNORED
Skipped(path) == \E i \in 1..Len(path) : path[i] \in IGNORED

\* the file entries walk(path) yields
walk(path) == {f \in Files : IsPrefix(path, f) /\ ~Skipped(f)}

\* the caller has checked that the path exists (Deno.stat throws otherwise)
\* getFiles without the files.sort() of line 207: the walk's own order, here
\* the descending one
getFilesUnsorted(path) ==
    IF IsFile(path) THEN <<path>>
    ELSE LET up == SortPaths(walk(path))
         IN  [i \in 1..Len(up) |-> up[Len(up) + 1 - i]]

getFiles(path) == IF IsFile(path) THEN <<path>> ELSE SortPaths(walk(path))

(***************************************************************************)
(* isTextFile (lines 181-193).                                             *)
(***************************************************************************)
\* toLowerCase on a name of the file system
LowerName(n) == CASE n = "PNG" -> "png" [] n = "README" -> "readme" [] OTHER -> n

\* path.substring(path.lastIndexOf(".")) without its dot, when the last dot
\* of the path is in its last segment; None when the text after the last dot
\* spans a "/" or the path has no dot (it is then no member of BINARY_EXT)
Extension(path) ==
    IF Len(Last(path)) >= 2 THEN LowerName(Last(Last(path))) ELSE None

\* data.slice(0, 8000) on runs
RECURSIVE Slice(_, _)
Slice(runs, k) ==
    IF runs = <<>> \/ k = 0 THEN <<>>
    ELSE IF Head(runs).n >= k THEN <<Run(Head(runs).ch, k)>>
    ELSE <<Head(runs)>> \o Slice(Tail(runs), k - Head(runs).n)

RECURSIVE NullCount(_)
NullCount(runs) ==
    IF runs = <<>> THEN 0
    ELSE (IF Head(runs).ch = "NUL" THEN Head(runs).n ELSE 0) + NullCount(Tail(runs))

\* nullCount / sample.length < 0.1; 0 / 0 is NaN and NaN < 0.1 is false
isTextFile(path) ==
    IF Extension(path) \in BINARY_EXT THEN FALSE
    ELSE IF path \in Unreadable THEN FALSE
    ELSE LET sample == Slice(Content(path), SampleBytes)
         IN  ByteLen(sample) > 0 /\ 10 * NullCount(sample) < ByteLen(sample)

(***************************************************************************)
(* matchesPattern (lines 210-220).  A glob is a sequence of segment        *)
(* patterns: a literal segment, "*.ext" (a segment ending in .ext) or "**" *)
(* (any number of segments, globstar).                                     *)
(***************************************************************************)
Lit(seg) == [k |-> "lit", seg |-> seg]

StarExt(e) == [k |-> "ext", seg |-> <<e>>]

GlobStar == [k |-> "globstar", seg |-> <<>>]

\* one segment pattern against one segment (the "*" of "*.ext" does not
\* cross a "/")
SegMatch(sp, seg) ==
    CASE sp.k = "lit"  -> seg = sp.seg
      [] sp.k = "ext"  -> Len(seg) >= 2 /\ Last(seg) = sp.seg[1]

\* globToRegExp(pattern, {extended, globstar}).test(path): anchored at both ends
RECURSIVE GlobTest(_, _)
GlobTest(pat, path) ==
    IF pat = <<>> THEN path = <<>>
    ELSE IF Head(pat).k = "globstar"
         THEN GlobTest(Tail(pat), path)
              \/ (path # <<>> /\ GlobTest(pat, Tail(path)))
    ELSE path # <<>> /\ SegMatch(Head(pat), Head(path))
         /\ GlobTest(Tail(pat), Tail(path))

\* regex.test(relativePath) || regex.test(filePath), for some pattern
matchesPattern(filePath, patterns, base) ==
    \E i \in 1..Len(patterns) :
        \/ GlobTest(patterns[i], relative(base, filePath))
        \/ GlobTest(patterns[i], AbsName(filePath))

(***************************************************************************)
(* parseMaxSize (lines 222-233): /^(\d+)(k|kb|m|mb)?$/i                     *)
(***************************************************************************)
RECURSIVE DigitPrefixLen(_)
DigitPrefixLen(s) ==
    IF s # <<>> /\ Head(s) \in DOMAIN Digits THEN 1 + DigitPrefixLen(Tail(s)) ELSE 0

\* parseInt on a string of digits
RECURSIVE parseInt(_)
parseInt(ds) == IF ds = <<>> THEN 0 ELSE 10 * parseInt(Front(ds)) + Digits[Last(ds)]

Units == { <<>>, <<"k">>, <<"k", "b">>, <<"m">>, <<"m", "b">> }

\* [ok |-> the input matches, size |-> the threshold in bytes]
parseMaxSize(input) ==
    LET d    == DigitPrefixLen(input)
        unit == toLowerCase(SubSeq(input, d + 1, Len(input)))
        num  == parseInt(SubSeq(input, 1, d))
    IN  IF d = 0 \/ unit \notin Units THEN [ok |-> FALSE, size |-> 0]
        ELSE [ok |-> TRUE,
              size |-> IF unit \in { <<"k">>, <<"k", "b">> } THEN num * Kilo
                       ELSE IF unit \in { <<"m">>, <<"m", "b">> } THEN num * Kilo * Kilo
                       ELSE num]

(***************************************************************************)
(* promptStderr (lines 236-254) and the choice derived from its result.    *)
(***************************************************************************)
Null == [isNull |-> TRUE, text |-> <<>>]

Str(t) == [isNull |-> FALSE, text |-> t]

\* input.replace(/\r?\n$/, "")
StripNewline(s) ==
    IF s # <<>> /\ Last(s) = "\n"
    THEN IF Len(s) >= 2 /\ s[Len(s) - 1] = "\r" THEN SubSeq(s, 1, Len(s) - 2)
         ELSE Front(s)
    ELSE s

\* chunk: what one read of stdin delivers, Null at end of input.  Every chunk
\* of the model is shorter than the 1024-byte buffer, so the loop reads once.
promptStderr(chunk) ==
    IF chunk.isNull \/ chunk.text = <<>> THEN Null
    ELSE IF StripNewline(chunk.text) = <<>> THEN Null
    ELSE Str(StripNewline(chunk.text))

\* (answer || "").toLowerCase().trim()
Choice(ans) == trim(toLowerCase(IF ans.isNull THEN <<>> ELSE ans.text))

ChoiceAll == { <<"a">>, <<"a", "l", "l">> }

ChoiceSkip == { <<"s">>, <<"s", "k", "i", "p">> }

ChoiceYes == { <<"y">>, <<"y", "e", "s">> }

(***************************************************************************)
(* The inputs of a run.                                                    *)
(***************************************************************************)
Rel(segs) == [abs |-> FALSE, segs |-> segs]

\* "src", "src/big.ts" and a path that does not exist
InputPaths == { Rel(<< <<"src">> >>),
                Rel(<< <<"src">>, <<"big", "ts">> >>), Rel(<< <<"nope">> >>) }

\* "**/*.ts", "*.md", "**/src/*.ts"
P_ts == <<GlobStar, StarExt("ts")>>
P_md == <<StarExt("md")>>
P_abs == <<GlobStar, Lit(<<"src">>), StarExt("ts")>>

\* --include / --exclude values; <<>> stands for an option that is not given
IncludeChoices == { <<>>, <<P_ts, P_md>>, <<P_abs, P_md>> }

ExcludeChoices == { <<>>, <<P_ts>>, <<P_abs>> }

\* --maxSize values: the default "100k", "1KB" and the invalid "abc"
MaxSizeChoices == { <<"1", "0", "0", "k">>, <<"1", "K", "B">>, <<"a", "b", "c">> }

\* --output values
OutputChoices == {None, "out.txt"}

\* what the operator may type at a prompt, as one read of stdin delivers it
StdinChunks == { Null, Str(<<"\n">>), Str(<<"y", "\n">>),
                 Str(<<"Y", "E", "S", "\r", "\n">>), Str(<<"n", "\n">>),
                 Str(<<" ", "a", " ", "\n">>), Str(<<"A", "L", "L", "\n">>),
                 Str(<<"s", "\n">>), Str(<<"S", "k", "i", "p", "\n">>),
                 Str(<<"q", "\n">>), Str(<<"y", "\n", "y", "\n">>) }

(***************************************************************************)
(* The output body (lines 405-416): one header line, the trimmed content   *)
(* and an empty line per included file.                                    *)
(***************************************************************************)
\* content.trimEnd() on runs
RECURSIVE trimEnd(_)
trimEnd(runs) ==
    IF runs # <<>> /\ Last(runs).ch \in Whitespace THEN trimEnd(Front(runs)) ELSE runs

Section(base, file) ==
    << [kind |-> "header",  name |-> DisplayName(base, file), text |-> <<>>],
       [kind |-> "content", name |-> <<>>, text |-> trimEnd(Content(file))],
       [kind |-> "blank",   name |-> <<>>, text |-> <<>>] >>

RECURSIVE BuildOutput(_, _)
BuildOutput(base, files) ==
    IF files = <<>> THEN <<>>
    ELSE Section(base, Head(files)) \o BuildOutput(base, Tail(files))

(***************************************************************************)
(* The arguments of parseArgs (cli/node.ts).  An argument is the number of *)
(* "-" it starts with and the text after them: "--yes" is Arg(2, "yes"),   *)
(* "-o" is Arg(1, "o"), "src" is Arg(0, "src").                            *)
(***************************************************************************)
Arg(dashes, text) == [dash |-> dashes, word |-> text]

\* arg.startsWith("-")
startsWithDash(arg) == arg.dash > 0

\* an optional field that is not set (undefined)
Unset == Arg(0, None)

\* lines 5-10: include and exclude are not set (a list that is set is never
\* empty, lines 37 and 50)
DefaultOptions ==
    [maxSize |-> Arg(0, "100k"), yes |-> FALSE, copy |-> FALSE, paths |-> <<>>,
     output |-> Unset, include |-> <<>>, exclude |-> <<>>]

(***************************************************************************)
(* The run.                                                                *)
(***************************************************************************)
\* the state after CataiArgs.parse(Deno.args) (line 330)
Init ==
    /\ pc = "parseMaxSize"
    /\ opts \in [output : OutputChoices, include : IncludeChoices,
                 exclude : ExcludeChoices, maxSize : MaxSizeChoices,
                 yes : BOOLEAN, copy : BOOLEAN,
                 paths : SeqsOf(InputPaths, 1, MaxPaths)]
    /\ config = opts
    /\ maxFileSize = 0
    /\ pathIdx = 0
    /\ allFiles = <<>>
    /\ baseDir = Cwd
    /\ filteredFiles = <<>>
    /\ fileIdx = 0
    /\ filesToInclude = <<>>
    /\ skippedFiles = <<>>
    /\ evaluated = <<>>
    /\ prompts = <<>>
    /\ answer = Null
    /\ result = <<>>
    /\ summary = <<>>
    /\ stdout = <<>>
    /\ outFile = <<>>
    /\ clipboard = <<>>
    /\ warnings = <<>>
    /\ exitCode = <<>>
    /\ args = <<>>
    /\ argIdx = 0
    /\ options = DefaultOptions

selection == <<allFiles, baseDir, filteredFiles, fileIdx, filesToInclude,
               skippedFiles, evaluated, prompts, answer>>

sinks == <<result, summary, stdout, outFile, clipboard, warnings>>

\* ParseMaxSize without the Deno.exit(1) of line 226: the error is logged and
\* the run goes on with the number parseInt finds
ParseMaxSizeNoExit ==
    /\ pc = "parseMaxSize"
    /\ maxFileSize' = parseMaxSize(opts.maxSize).size
    /\ pc' = "resolve"
    /\ UNCHANGED <<parser, config, opts, pathIdx, selection, sinks, exitCode>>

\* line 333: the threshold is parsed, or the process exits with code 1
ParseMaxSize ==
    /\ pc = "parseMaxSize"
    /\ IF parseMaxSize(opts.maxSize).ok
       THEN /\ maxFileSize' = parseMaxSize(opts.maxSize).size
            /\ pc' = "resolve"
            /\ UNCHANGED exitCode
       ELSE /\ pc' = "exited"
            /\ exitCode' = <<1>>
            /\ UNCHANGED maxFileSize
    /\ UNCHANGED <<parser, config, opts, pathIdx, selection, sinks>>

\* lines 336-338, one input path: its files are appended to allFiles
ResolvePath ==
    /\ pc = "resolve"
    /\ pathIdx < Len(opts.paths)
    /\ Exists(resolve(opts.paths[pathIdx + 1]))
    /\ allFiles' = allFiles \o getFiles(resolve(opts.paths[pathIdx + 1]))
    /\ pathIdx' = pathIdx + 1
    /\ UNCHANGED <<parser, pc, config, opts, maxFileSize, baseDir, filteredFiles, fileIdx,
                   filesToInclude, skippedFiles, evaluated, prompts, answer,
                   sinks, exitCode>>

\* Deno.stat throws NotFound in getFiles; nothing catches it
ResolveNotFound ==
    /\ pc = "resolve"
    /\ pathIdx < Len(opts.paths)
    /\ ~Exists(resolve(opts.paths[pathIdx + 1]))
    /\ pc' = "exited"
    /\ exitCode' = <<1>>
    /\ UNCHANGED <<parser, config, opts, maxFileSize, pathIdx, selection, sinks>>

\* lines 340-345
ComputeBase ==
    /\ pc = "resolve"
    /\ pathIdx = Len(opts.paths)
    /\ LET base == IF Len(opts.paths) = 1 THEN resolve(opts.paths[1]) ELSE Cwd
       IN  baseDir' = IF IsDirectory(base) THEN base ELSE Cwd
    /\ filteredFiles' = allFiles
    /\ pc' = "include"
    /\ UNCHANGED <<parser, config, opts, maxFileSize, pathIdx, allFiles, fileIdx, filesToInclude,
                   skippedFiles, evaluated, prompts, answer, sinks, exitCode>>

\* ApplyInclude with the result of filter() thrown away
ApplyIncludeUnassigned ==
    /\ pc = "include"
    /\ pc' = "exclude"
    /\ UNCHANGED <<parser, config, opts, maxFileSize, pathIdx, selection, sinks, exitCode>>

\* lines 348-352
ApplyInclude ==
    /\ pc = "include"
    /\ filteredFiles' =
         IF Len(opts.include) > 0
         THEN LET Keep(file) == matchesPattern(file, opts.include, baseDir)
              IN  SelectSeq(filteredFiles, Keep)
         ELSE filteredFiles
    /\ pc' = "exclude"
    /\ UNCHANGED <<parser, config, opts, maxFileSize, pathIdx, allFiles, baseDir, fileIdx,
                   filesToInclude, skippedFiles, evaluated, prompts, answer,
                   sinks, exitCode>>

\* ApplyExclude with the result of filter() thrown away
ApplyExcludeUnassigned ==
    /\ pc = "exclude"
    /\ pc' = "gate"
    /\ UNCHANGED <<parser, config, opts, maxFileSize, pathIdx, selection, sinks, exitCode>>

\* lines 355-359
ApplyExclude ==
    /\ pc = "exclude"
    /\ filteredFiles' =
         IF Len(opts.exclude) > 0
         THEN LET Keep(file) == ~matchesPattern(file, opts.exclude, baseDir)
              IN  SelectSeq(filteredFiles, Keep)
         ELSE filteredFiles
    /\ pc' = "gate"
    /\ UNCHANGED <<parser, config, opts, maxFileSize, pathIdx, allFiles, baseDir, fileIdx,
                   filesToInclude, skippedFiles, evaluated, prompts, answer,
                   sinks, exitCode>>

(***************************************************************************)
(* The size gate (lines 361-403), one action per way through an iteration. *)
(***************************************************************************)
\* the candidate of the current iteration
Candidate == filteredFiles[fileIdx + 1]

InGate == pc = "gate" /\ fileIdx < Len(filteredFiles)

\* line 371 with >= for >: a file of exactly the threshold counts as oversized
OversizedOrEqual(file, max) == Size(file) >= max

\* line 371: stat.size > maxFileSize
Oversized(file, max) == Size(file) > max

\* Decide without the break of line 394: "s" skips the file and the loop goes on
DecideNoBreak(choice) ==
    IF choice \in ChoiceAll THEN [include |-> TRUE, setYes |-> TRUE, stop |-> FALSE]
    ELSE IF choice \in ChoiceYes THEN [include |-> TRUE, setYes |-> FALSE, stop |-> FALSE]
    ELSE [include |-> FALSE, setYes |-> FALSE, stop |-> FALSE]

\* Decide without line 390: "a" includes the file and opts.yes stays as it was
DecideAllOnce(choice) ==
    IF choice \in ChoiceSkip THEN [include |-> FALSE, setYes |-> FALSE, stop |-> TRUE]
    ELSE IF choice \in ChoiceAll \cup ChoiceYes
         THEN [include |-> TRUE, setYes |-> FALSE, stop |-> FALSE]
    ELSE [include |-> FALSE, setYes |-> FALSE, stop |-> FALSE]

\* lines 389-399: what a choice does to the prompted file and to the loop
Decide(choice) ==
    IF choice \in ChoiceAll THEN [include |-> TRUE, setYes |-> TRUE, stop |-> FALSE]
    ELSE IF choice \in ChoiceSkip THEN [include |-> FALSE, setYes |-> FALSE, stop |-> TRUE]
    ELSE IF choice \in ChoiceYes THEN [include |-> TRUE, setYes |-> FALSE, stop |-> FALSE]
    ELSE [include |-> FALSE, setYes |-> FALSE, stop |-> FALSE]

\* GateBinary without the continue of line 366: the candidate is pushed
GateBinaryPushed ==
    /\ InGate
    /\ ~isTextFile(Candidate)
    /\ evaluated' = Append(evaluated, [idx |-> fileIdx + 1, fate |-> "included"])
    /\ filesToInclude' = Append(filesToInclude, Candidate)
    /\ fileIdx' = fileIdx + 1
    /\ UNCHANGED <<parser, pc, config, opts, maxFileSize, pathIdx, allFiles, baseDir,
                   filteredFiles, skippedFiles, prompts, answer, sinks, exitCode>>

\* line 366: a binary candidate is passed over
GateBinary ==
    /\ InGate
    /\ ~isTextFile(Candidate)
    /\ evaluated' = Append(evaluated, [idx |-> fileIdx + 1, fate |-> "binary"])
    /\ fileIdx' = fileIdx + 1
    /\ UNCHANGED <<parser, pc, config, opts, maxFileSize, pathIdx, allFiles, baseDir, filteredFiles,
                   filesToInclude, skippedFiles, prompts, answer, sinks, exitCode>>

\* lines 400-402: a text candidate within the threshold is included
GateSmall ==
    /\ InGate
    /\ isTextFile(Candidate)
    /\ ~Oversized(Candidate, maxFileSize)
    /\ evaluated' = Append(evaluated, [idx |-> fileIdx + 1, fate |-> "included"])
    /\ filesToInclude' = Append(filesToInclude, Candidate)
    /\ fileIdx' = fileIdx + 1
    /\ UNCHANGED <<parser, pc, config, opts, maxFileSize, pathIdx, allFiles, baseDir, filteredFiles,
                   skippedFiles, prompts, answer, sinks, exitCode>>

\* GateYes pushing to the wrong list: the candidate is recorded as skipped
GateYesSkipped ==
    /\ InGate
    /\ isTextFile(Candidate)
    /\ Oversized(Candidate, maxFileSize)
    /\ opts.yes
    /\ evaluated' = Append(evaluated, [idx |-> fileIdx + 1, fate |-> "skipped"])
    /\ skippedFiles' = Append(skippedFiles, DisplayName(baseDir, Candidate))
    /\ fileIdx' = fileIdx + 1
    /\ UNCHANGED <<parser, pc, config, opts, maxFileSize, pathIdx, allFiles, baseDir,
                   filteredFiles, filesToInclude, prompts, answer, sinks, exitCode>>

\* GateYes without the continue of line 374: the candidate is pushed and the
\* operator is asked about it all the same
GateYesNoContinue ==
    /\ InGate
    /\ isTextFile(Candidate)
    /\ Oversized(Candidate, maxFileSize)
    /\ opts.yes
    /\ \E chunk \in StdinChunks :
         LET ans == promptStderr(chunk)
             d   == Decide(Choice(ans))
             pushed == Append(filesToInclude, Candidate)
         IN  /\ answer' = ans
             /\ filesToInclude' = IF d.include THEN Append(pushed, Candidate) ELSE pushed
             /\ skippedFiles' = IF d.include THEN skippedFiles
                                ELSE Append(skippedFiles, DisplayName(baseDir, Candidate))
             /\ pc' = IF d.stop THEN "build" ELSE pc
    /\ evaluated' = Append(evaluated, [idx |-> fileIdx + 1, fate |-> "included"])
    /\ prompts' = Append(prompts, fileIdx + 1)
    /\ fileIdx' = fileIdx + 1
    /\ UNCHANGED <<parser, config, opts, maxFileSize, pathIdx, allFiles, baseDir,
                   filteredFiles, sinks, exitCode>>

\* lines 372-375: an oversized text candidate under opts.yes is included
GateYes ==
    /\ InGate
    /\ isTextFile(Candidate)
    /\ Oversized(Candidate, maxFileSize)
    /\ opts.yes
    /\ evaluated' = Append(evaluated, [idx |-> fileIdx + 1, fate |-> "included"])
    /\ filesToInclude' = Append(filesToInclude, Candidate)
    /\ fileIdx' = fileIdx + 1
    /\ UNCHANGED <<parser, pc, config, opts, maxFileSize, pathIdx, allFiles, baseDir, filteredFiles,
                   skippedFiles, prompts, answer, sinks, exitCode>>

\* lines 377-399: the operator is asked about an oversized text candidate
GatePrompt ==
    /\ InGate
    /\ isTextFile(Candidate)
    /\ Oversized(Candidate, maxFileSize)
    /\ ~opts.yes
    /\ \E chunk \in StdinChunks :
         LET ans == promptStderr(chunk)
             d   == Decide(Choice(ans))
         IN  /\ answer' = ans
             /\ opts' = [opts EXCEPT !.yes = IF d.setYes THEN TRUE ELSE @]
             /\ filesToInclude' = IF d.include THEN Append(filesToInclude, Candidate)
                                  ELSE filesToInclude
             /\ skippedFiles' = IF d.include THEN skippedFiles
                                ELSE Append(skippedFiles, DisplayName(baseDir, Candidate))
             /\ evaluated' = Append(evaluated,
                    [idx |-> fileIdx + 1,
                     fate |-> IF d.include THEN "included" ELSE "skipped"])
             /\ pc' = IF d.stop THEN "build" ELSE pc
    /\ prompts' = Append(prompts, fileIdx + 1)
    /\ fileIdx' = fileIdx + 1
    /\ UNCHANGED <<parser, config, maxFileSize, pathIdx, allFiles, baseDir, filteredFiles,
                   sinks, exitCode>>

\* the loop ran out of candidates
GateEnd ==
    /\ pc = "gate"
    /\ fileIdx = Len(filteredFiles)
    /\ pc' = "build"
    /\ UNCHANGED <<parser, config, opts, maxFileSize, pathIdx, selection, sinks, exitCode>>

(***************************************************************************)
(* Output, summary and sinks (lines 405-460).                              *)
(***************************************************************************)
\* lines 406-416
Build ==
    /\ pc = "build"
    /\ result' = BuildOutput(baseDir, filesToInclude)
    /\ pc' = "summary"
    /\ UNCHANGED <<parser, config, opts, maxFileSize, pathIdx, selection, summary, stdout, outFile,
                   clipboard, warnings, exitCode>>

\* line 410: Deno.readTextFile throws for a selected file that can no longer
\* be read (deleted or locked since the gate saw it); nothing catches it
BuildReadFails ==
    /\ pc = "build"
    /\ filesToInclude # <<>>
    /\ pc' = "exited"
    /\ exitCode' = <<1>>
    /\ UNCHANGED <<parser, config, opts, maxFileSize, pathIdx, selection, sinks>>

(***************************************************************************)
(* The token estimate and the summary (lines 118-124, 166-168, 416-446).   *)
(***************************************************************************)
TOKEN_LIMITS ==
    [claude |-> 200000, gpt4 |-> 128000, gpt4o |-> 128000, gpt3 |-> 16000,
     gemini |-> 1000000]

\* the number of characters of the names of the file system
PartLen ==
    [n \in {"", "PNG", "README", "a", "big", "blob", "dat", "empty", "huge", "js",
            "locked", "logo", "m", "md", "node_modules", "proj", "src", "ts", "txt",
            "zed"} |->
        CASE n = "" -> 0
          [] n \in {"a", "m"} -> 1
          [] n \in {"js", "md", "ts"} -> 2
          [] n \in {"PNG", "big", "dat", "src", "txt", "zed"} -> 3
          [] n \in {"blob", "huge", "logo", "proj"} -> 4
          [] n = "empty" -> 5
          [] n \in {"README", "locked"} -> 6
          [] n = "node_modules" -> 12]

\* the length of the parts of a segment joined by ".", of the segments of a
\* name joined by "/"
RECURSIVE SegLen(_)
SegLen(seg) ==
    IF seg = <<>> THEN 0
    ELSE PartLen[Head(seg)] + (IF Len(seg) > 1 THEN 1 + SegLen(Tail(seg)) ELSE 0)

RECURSIVE NameLen(_)
NameLen(name) ==
    IF name = <<>> THEN 0
    ELSE SegLen(Head(name)) + (IF Len(name) > 1 THEN 1 + NameLen(Tail(name)) ELSE 0)

\* the length of one line of the body: `-- file: ${name} --`, the content, ""
LineLen(line) ==
    CASE line.kind = "header" -> 9 + NameLen(line.name) + 3
      [] line.kind = "content" -> ByteLen(line.text)
      [] line.kind = "blank" -> 0

\* output.join("\n").length
RECURSIVE StrLen(_)
StrLen(lines) ==
    IF lines = <<>> THEN 0
    ELSE LineLen(Head(lines)) + (IF Len(lines) > 1 THEN 1 + StrLen(Tail(lines)) ELSE 0)

\* estimateTokens with Math.floor for Math.ceil
estimateTokensFloor(length) == (2 * length) \div 7

\* Math.ceil(text.length / 3.5): length / 3.5 is 2 * length / 7, and the
\* double nearest to it is an integer only when 7 divides 2 * length (any
\* other quotient is a seventh or more away from the integers)
estimateTokens(length) == (2 * length + 6) \div 7

\* totalTokens < limit
Fits(totalTokens, limit) == totalTokens < limit

\* lines 420-446: the tree and the counts go to stderr
Summary ==
    /\ pc = "summary"
    /\ summary' =
         LET totalTokens == estimateTokens(StrLen(result))
         IN  Append(summary, [files |-> Len(filesToInclude),
                              skipped |-> skippedFiles,
                              tree |-> Range(filesToInclude),
                              include |-> opts.include,
                              exclude |-> opts.exclude,
                              size |-> StrLen(result),
                              tokens |-> totalTokens,
                              fits |-> [model \in DOMAIN TOKEN_LIMITS |->
                                           Fits(totalTokens, TOKEN_LIMITS[model])]])
    /\ pc' = "copy"
    /\ UNCHANGED <<parser, config, opts, maxFileSize, pathIdx, selection, result, stdout, outFile,
                   clipboard, warnings, exitCode>>

\* how the hand-off to the clipboard process may end: the body is written and
\* the process exits; the spawn throws (no xclip / wl-copy); the write throws
\* after the process took only the first lines of the body
ClipboardOutcomes == {"ok", "spawnFails", "writeFails"}

\* lines 256-281: the body is written to the clipboard process's stdin, or
\* what is thrown is caught and logged
copyToClipboard(text, outcome) ==
    /\ clipboard' =
         CASE outcome = "ok" -> Append(clipboard, text)
           [] outcome = "spawnFails" -> clipboard
           [] outcome = "writeFails" ->
                Append(clipboard, SubSeq(text, 1, IF text = <<>> THEN 0 ELSE 1))
    /\ warnings' = IF outcome = "ok" THEN warnings
                   ELSE Append(warnings, "Failed to copy to clipboard")

\* Copy without the try / catch of lines 263-280: what the hand-off throws
\* ends the run
CopyUncaught ==
    /\ pc = "copy"
    /\ IF opts.copy
       THEN \E outcome \in ClipboardOutcomes :
               /\ clipboard' =
                    CASE outcome = "ok" -> Append(clipboard, result)
                      [] outcome = "spawnFails" -> clipboard
                      [] outcome = "writeFails" ->
                           Append(clipboard,
                                  SubSeq(result, 1, IF result = <<>> THEN 0 ELSE 1))
               /\ UNCHANGED warnings
               /\ pc' = IF outcome = "ok" THEN "write" ELSE "exited"
               /\ exitCode' = IF outcome = "ok" THEN exitCode ELSE <<1>>
       ELSE /\ UNCHANGED <<clipboard, warnings, exitCode>>
            /\ pc' = "write"
    /\ UNCHANGED <<parser, config, opts, maxFileSize, pathIdx, selection, result, summary, stdout,
                   outFile>>

\* lines 448-451
Copy ==
    /\ pc = "copy"
    /\ IF opts.copy
       THEN \E outcome \in ClipboardOutcomes : copyToClipboard(result, outcome)
       ELSE UNCHANGED <<clipboard, warnings>>
    /\ pc' = "write"
    /\ UNCHANGED <<parser, config, opts, maxFileSize, pathIdx, selection, result, summary, stdout,
                   outFile, exitCode>>

\* lines 453-456
WriteOutput ==
    /\ pc = "write"
    /\ outFile' = IF opts.output # None THEN Append(outFile, result) ELSE outFile
    /\ pc' = "stdout"
    /\ UNCHANGED <<parser, config, opts, maxFileSize, pathIdx, selection, result, summary, stdout,
                   clipboard, warnings, exitCode>>

\* WriteStdout without the condition of line 458
WriteStdoutAlways ==
    /\ pc = "stdout"
    /\ stdout' = Append(stdout, result)
    /\ pc' = "done"
    /\ exitCode' = <<0>>
    /\ UNCHANGED <<parser, config, opts, maxFileSize, pathIdx, selection, result, summary,
                   outFile, clipboard, warnings>>

\* lines 458-460, then the process ends with code 0
WriteStdout ==
    /\ pc = "stdout"
    /\ stdout' = IF opts.output = None /\ ~opts.copy THEN Append(stdout, result)
                 ELSE stdout
    /\ pc' = "done"
    /\ exitCode' = <<0>>
    /\ UNCHANGED <<parser, config, opts, maxFileSize, pathIdx, selection, result, summary, outFile,
                   clipboard, warnings>>

Next ==
    \/ ParseMaxSize
    \/ ResolvePath
    \/ ResolveNotFound
    \/ ComputeBase
    \/ ApplyInclude
    \/ ApplyExclude
    \/ GateBinary
    \/ GateSmall
    \/ GateYes
    \/ GatePrompt
    \/ GateEnd
    \/ Build
    \/ BuildReadFails
    \/ Summary
    \/ Copy
    \/ WriteOutput
    \/ WriteStdout

Spec == Init /\ [][Next]_vars

(***************************************************************************)
(* The summary of a body of any length: estimateTokens and the fit table   *)
(* are functions of the body's length alone, so the body is one line of    *)
(* that many characters.  The lengths are the small ones and those around  *)
(* 3.5 times each model's limit, where the estimate meets the limit.       *)
(***************************************************************************)
MaxChars == 60

TokenWindow == 8

TextLengths ==
    (0..MaxChars) \cup
    UNION {{n \in ((7 * TOKEN_LIMITS[model]) \div 2 - TokenWindow)
                  ..((7 * TOKEN_LIMITS[model]) \div 2 + TokenWindow) : n >= 0} :
             model \in DOMAIN TOKEN_LIMITS}

InitTokens ==
    /\ pc = "summary"
    /\ \E n \in TextLengths :
          result = << [kind |-> "content", name |-> <<>>,
                       text |-> IF n = 0 THEN <<>> ELSE <<Run("x", n)>>] >>
    /\ opts = [output |-> None, include |-> <<>>, exclude |-> <<>>,
               maxSize |-> <<"1", "0", "0", "k">>, yes |-> FALSE, copy |-> FALSE,
               paths |-> << Rel(<< <<"src">> >>) >>]
    /\ config = opts
    /\ maxFileSize = parseMaxSize(opts.maxSize).size
    /\ pathIdx = Len(opts.paths)
    /\ allFiles = <<>>
    /\ baseDir = Cwd
    /\ filteredFiles = <<>>
    /\ fileIdx = 0
    /\ filesToInclude = <<>>
    /\ skippedFiles = <<>>
    /\ evaluated = <<>>
    /\ prompts = <<>>
    /\ answer = Null
    /\ summary = <<>>
    /\ stdout = <<>>
    /\ outFile = <<>>
    /\ clipboard = <<>>
    /\ warnings = <<>>
    /\ exitCode = <<>>
    /\ args = <<>>
    /\ argIdx = 0
    /\ options = DefaultOptions

NextTokens == Summary

SpecTokens == InitTokens /\ [][NextTokens]_vars

(***************************************************************************)
(* parseArgs of cli/node.ts (lines 4-86), one step per argument the loop   *)
(* takes up: the argument at args[argIdx + 1] (the index i of the code     *)
(* counts from 0) and the values or patterns it consumes.                  *)
(***************************************************************************)
MaxArgs == 4

\* the arguments a command line is made of here
ArgPool ==
    { Arg(2, "help"), Arg(1, "v"), Arg(1, "o"), Arg(2, "include"), Arg(2, "exclude"),
      Arg(2, "max-size"), Arg(2, "maxSize"), Arg(2, "yes"), Arg(1, "c"),
      Arg(0, "src"), Arg(0, "**/*.ts"), Arg(0, "**/*.md"), Arg(0, "1k") }

pipeline == <<config, opts, maxFileSize, pathIdx, selection, result, summary, outFile,
              clipboard>>

InitArgs ==
    /\ pc = "parseArgs"
    /\ args \in SeqsOf(ArgPool, 0, MaxArgs)
    /\ argIdx = 0
    /\ options = DefaultOptions
    /\ opts = [output |-> None, include |-> <<>>, exclude |-> <<>>,
               maxSize |-> <<"1", "0", "0", "k">>, yes |-> FALSE, copy |-> FALSE,
               paths |-> <<>>]
    /\ config = opts
    /\ maxFileSize = 0
    /\ pathIdx = 0
    /\ allFiles = <<>>
    /\ baseDir = Cwd
    /\ filteredFiles = <<>>
    /\ fileIdx = 0
    /\ filesToInclude = <<>>
    /\ skippedFiles = <<>>
    /\ evaluated = <<>>
    /\ prompts = <<>>
    /\ answer = Null
    /\ result = <<>>
    /\ summary = <<>>
    /\ stdout = <<>>
    /\ outFile = <<>>
    /\ clipboard = <<>>
    /\ warnings = <<>>
    /\ exitCode = <<>>

\* the loop is at an argument (line 13)
AtArg == pc = "parseArgs" /\ argIdx < Len(args)

\* const arg = args[i] (line 14)
CurrentArg == args[argIdx + 1]

\* what printHelp and the version line write to stdout
HelpText == << [kind |-> "help", name |-> <<>>, text |-> <<>>] >>

VersionText == << [kind |-> "version", name |-> <<>>, text |-> <<>>] >>

\* process.exit(code) after the message on stderr, with the help text on
\* stdout where the code prints it
ExitWith(code, message, out) ==
    /\ pc' = "exited"
    /\ exitCode' = <<code>>
    /\ warnings' = IF message = None THEN warnings ELSE Append(warnings, message)
    /\ stdout' = IF out = <<>> THEN stdout ELSE Append(stdout, out)
    /\ UNCHANGED <<parser, pipeline>>

\* the loop goes on behind the argument and what it consumed
Continue(consumed, newOptions) ==
    /\ argIdx' = argIdx + consumed
    /\ options' = newOptions
    /\ UNCHANGED <<pc, args, pipeline, stdout, warnings, exitCode>>

\* lines 32-35 and 45-48: the arguments from position k on up to the first
\* one that starts with "-"
RECURSIVE Patterns(_)
Patterns(k) ==
    IF k <= Len(args) /\ ~startsWithDash(args[k])
    THEN <<args[k]>> \o Patterns(k + 1)
    ELSE <<>>

\* lines 16-18
ParseHelp ==
    /\ AtArg
    /\ CurrentArg \in {Arg(1, "h"), Arg(2, "help")}
    /\ ExitWith(0, None, HelpText)

\* lines 19-21
ParseVersion ==
    /\ AtArg
    /\ CurrentArg \in {Arg(1, "v"), Arg(2, "version")}
    /\ ExitWith(0, None, VersionText)

\* lines 22-28
ParseOutput ==
    /\ AtArg
    /\ CurrentArg \in {Arg(1, "o"), Arg(2, "output")}
    /\ IF argIdx + 1 >= Len(args)
       THEN ExitWith(1, "Error: --output requires a value", <<>>)
       ELSE Continue(2, [options EXCEPT !.output = args[argIdx + 2]])

\* lines 29-41
ParseInclude ==
    /\ AtArg
    /\ CurrentArg = Arg(2, "include")
    /\ LET patterns == Patterns(argIdx + 2)
       IN  IF patterns = <<>>
           THEN ExitWith(1, "Error: --include requires at least one pattern", <<>>)
           ELSE Continue(1 + Len(patterns), [options EXCEPT !.include = patterns])

\* lines 42-54
ParseExclude ==
    /\ AtArg
    /\ CurrentArg = Arg(2, "exclude")
    /\ LET patterns == Patterns(argIdx + 2)
       IN  IF patterns = <<>>
           THEN ExitWith(1, "Error: --exclude requires at least one pattern", <<>>)
           ELSE Continue(1 + Len(patterns), [options EXCEPT !.exclude = patterns])

\* lines 55-61
ParseMaxSizeOption ==
    /\ AtArg
    /\ CurrentArg = Arg(2, "max-size")
    /\ IF argIdx + 1 >= Len(args)
       THEN ExitWith(1, "Error: --max-size requires a value", <<>>)
       ELSE Continue(2, [options EXCEPT !.maxSize = args[argIdx + 2]])

\* lines 62-63
ParseYes ==
    /\ AtArg
    /\ CurrentArg = Arg(2, "yes")
    /\ Continue(1, [options EXCEPT !.yes = TRUE])

\* lines 64-65
ParseCopy ==
    /\ AtArg
    /\ CurrentArg \in {Arg(1, "c"), Arg(2, "copy")}
    /\ Continue(1, [options EXCEPT !.copy = TRUE])

\* the arguments the branches of lines 16-65 take
Handled ==
    { Arg(1, "h"), Arg(2, "help"), Arg(1, "v"), Arg(2, "version"), Arg(1, "o"),
      Arg(2, "output"), Arg(2, "include"), Arg(2, "exclude"), Arg(2, "max-size"),
      Arg(2, "yes"), Arg(1, "c"), Arg(2, "copy") }

\* lines 66-69
ParseUnknown ==
    /\ AtArg
    /\ CurrentArg \notin Handled
    /\ startsWithDash(CurrentArg)
    /\ ExitWith(1, "Error: Unknown option", HelpText)

\* lines 70-73
ParsePath ==
    /\ AtArg
    /\ CurrentArg \notin Handled
    /\ ~startsWithDash(CurrentArg)
    /\ Continue(1, [options EXCEPT !.paths = Append(@, CurrentArg)])

\* ParseEnd without the check of lines 79-83
ParseEndUnchecked ==
    /\ pc = "parseArgs"
    /\ argIdx >= Len(args)
    /\ pc' = "returned"
    /\ UNCHANGED <<parser, pipeline, stdout, warnings, exitCode>>

\* lines 78-85: the loop is over
ParseEnd ==
    /\ pc = "parseArgs"
    /\ argIdx >= Len(args)
    /\ IF options.paths = <<>>
       THEN ExitWith(1, "Error: At least one path is required", HelpText)
       ELSE /\ pc' = "returned"
            /\ UNCHANGED <<parser, pipeline, stdout, warnings, exitCode>>

NextArgs ==
    \/ ParseHelp
    \/ ParseVersion
    \/ ParseOutput
    \/ ParseInclude
    \/ ParseExclude
    \/ ParseMaxSizeOption
    \/ ParseYes
    \/ ParseCopy
    \/ ParseUnknown
    \/ ParsePath
    \/ ParseEnd

SpecArgs == InitArgs /\ [][NextArgs]_vars

(***************************************************************************)
(* Vocabulary of the properties.                                           *)
(***************************************************************************)
\* the file a display name stands for
FileOfName(base, name) ==
    IF Head(name) = <<"">> THEN Tail(name) ELSE Normalize(base, name)

IncludedSet == Range(filesToInclude)

SkippedSet == {FileOfName(baseDir, skippedFiles[i]) : i \in 1..Len(skippedFiles)}

ExcludedByFilter == Range(allFiles) \ Range(filteredFiles)

ExcludedAsBinary ==
    {filteredFiles[evaluated[i].idx] :
        i \in {j \in 1..Len(evaluated) : evaluated[j].fate = "binary"}}

\* the gate's loop is over
GateFinished == pc \in {"build", "summary", "copy", "write", "stdout", "done"}

\* the candidate behind an entry of evaluated
FileAt(i) == filteredFiles[i]

\* the last prompt was answered s / skip, a / all
AnsweredSkip == prompts # <<>> /\ Choice(answer) \in ChoiceSkip

AnsweredAll == prompts # <<>> /\ Choice(answer) \in ChoiceAll

\* the fate of the candidate the last prompt was about
PromptedFate ==
    LET e == CHOOSE x \in Range(evaluated) : x.idx = Last(prompts) IN e.fate

(***************************************************************************)
(* C1.  After the size gate finishes, no file is in more than one of the   *)
(* included sequence, the skipped sequence and the excluded set (by filter *)
(* or as binary), also when the input paths overlap.                       *)
(* The code does not hold this: allFiles keeps a file once per input path  *)
(* that reaches it, and the operator may answer differently each time.     *)
(***************************************************************************)
C1_AtMostOneOutcome ==
    GateFinished =>
        /\ IncludedSet \cap SkippedSet = {}
        /\ IncludedSet \cap (ExcludedByFilter \cup ExcludedAsBinary) = {}
        /\ SkippedSet \cap (ExcludedByFilter \cup ExcludedAsBinary) = {}

(***************************************************************************)
(* C2.  A candidate classified as binary is never included, never skipped  *)
(* and never prompted for, whatever its size, opts.yes and the answers.    *)
(***************************************************************************)
C2_BinaryNeverSelected ==
    /\ \A f \in IncludedSet : isTextFile(f)
    /\ \A f \in SkippedSet : isTextFile(f)
    /\ \A i \in Range(prompts) : isTextFile(FileAt(i))
    /\ \A e \in Range(evaluated) : ~isTextFile(FileAt(e.idx)) => e.fate = "binary"

\* an oversized binary candidate was passed over after "a" / "all" was answered
C2_Witness ==
    /\ pc = "done"
    /\ AnsweredAll
    /\ \E e \in Range(evaluated) :
          /\ e.idx > Last(prompts)
          /\ e.fate = "binary"
          /\ Oversized(FileAt(e.idx), maxFileSize)

(***************************************************************************)
(* C3.  Once s / skip is answered, the prompted file is recorded as        *)
(* skipped and the loop is left: from then on nothing is evaluated,        *)
(* prompted for, included or skipped.                                      *)
(***************************************************************************)
C3_SkipStops ==
    /\ [](AnsweredSkip =>
            /\ pc # "gate"
            /\ PromptedFate = "skipped"
            /\ Last(skippedFiles) = DisplayName(baseDir, FileAt(Last(prompts)))
            /\ Last(evaluated).idx = Last(prompts)
            /\ fileIdx = Last(prompts))
    /\ [][AnsweredSkip =>
            UNCHANGED <<evaluated, prompts, answer, filesToInclude, skippedFiles,
                        fileIdx>>]_vars

\* the run ended after a skip that left a small and an oversized text candidate behind
C3_Witness ==
    /\ pc = "done"
    /\ AnsweredSkip
    /\ \E i, j \in (fileIdx + 1)..Len(filteredFiles) :
          /\ isTextFile(FileAt(i)) /\ ~Oversized(FileAt(i), maxFileSize)
          /\ isTextFile(FileAt(j)) /\ Oversized(FileAt(j), maxFileSize)

(***************************************************************************)
(* C4.  Once a / all is answered, the prompted file is included, opts.yes  *)
(* is set and stays set, no further prompt is written, and every oversized *)
(* text candidate evaluated afterwards is included.                        *)
(***************************************************************************)
C4_AllIsSticky ==
    /\ [](AnsweredAll =>
            /\ opts.yes
            /\ PromptedFate = "included"
            /\ \A e \in Range(evaluated) :
                  (e.idx > Last(prompts) /\ isTextFile(FileAt(e.idx)))
                      => e.fate = "included" /\ FileAt(e.idx) \in IncludedSet)
    /\ [][AnsweredAll => (opts.yes' /\ UNCHANGED <<prompts, answer, skippedFiles>>)]_vars

\* after "a" / "all" a later oversized text candidate was included, at the end of the run
C4_Witness ==
    /\ pc = "done"
    /\ AnsweredAll
    /\ \E e \in Range(evaluated) :
          /\ e.idx > Last(prompts)
          /\ e.fate = "included"
          /\ Oversized(FileAt(e.idx), maxFileSize)

(***************************************************************************)
(* C5.  As stated: at the end of the run every text candidate of the       *)
(* filtered sequence within the threshold is included, and was not         *)
(* prompted for.  This fails after s / skip: the loop is left and the      *)
(* candidates behind the prompted one are not evaluated.                   *)
(***************************************************************************)
SmallText(i) == isTextFile(FileAt(i)) /\ Size(FileAt(i)) <= maxFileSize

FateOf(i) == {e.fate : e \in {x \in Range(evaluated) : x.idx = i}}

C6_YesNeverPrompts ==
    config.yes =>
        /\ opts.yes
        /\ prompts = <<>>
        /\ skippedFiles = <<>>
        /\ \A e \in Range(evaluated) : isTextFile(FileAt(e.idx)) => e.fate = "included"
        /\ GateFinished => filesToInclude = SelectSeq(filteredFiles, isTextFile)

\* a run with --yes ended with a file above the threshold in the output
C6_Witness ==
    /\ pc = "done"
    /\ config.yes
    /\ \E f \in IncludedSet : Oversized(f, maxFileSize)

(***************************************************************************)
(* C7.  As stated: when the last prompt was answered with anything but     *)
(* y / yes / a / all / s / skip, the prompted file is recorded as skipped, *)
(* the state is unchanged (opts.yes stays false, the loop runs to its end) *)
(* and the file has no section in the output body; y / yes includes the    *)
(* file and leaves the state unchanged.                                    *)
(* The body part fails when the same file is a candidate twice (two input  *)
(* paths reach it) and is declined once and accepted once.                 *)
(***************************************************************************)
AnsweredOther ==
    prompts # <<>> /\ Choice(answer) \notin (ChoiceAll \cup ChoiceSkip \cup ChoiceYes)

AnsweredYes == prompts # <<>> /\ Choice(answer) \in ChoiceYes

\* the output body has a section for the file
HasSection(file) ==
    \E i \in 1..Len(result) :
        result[i].kind = "header" /\ result[i].name = DisplayName(baseDir, file)

C7_DeclinedFileAbsent ==
    /\ AnsweredOther =>
          /\ PromptedFate = "skipped"
          /\ DisplayName(baseDir, FileAt(Last(prompts))) \in Range(skippedFiles)
          /\ ~opts.yes
          /\ GateFinished => fileIdx = Len(filteredFiles)
          /\ pc = "done" => ~HasSection(FileAt(Last(prompts)))
    /\ AnsweredYes =>
          /\ PromptedFate = "included"
          /\ ~opts.yes
          /\ GateFinished => fileIdx = Len(filteredFiles)

(***************************************************************************)
(* C8.  As stated: with a non-empty include list, the path of every        *)
(* included file relative to the base directory matches an include         *)
(* pattern.  This fails for a pattern that matches only the absolute path. *)
(***************************************************************************)
MatchesRelative(file, patterns) ==
    \E i \in 1..Len(patterns) : GlobTest(patterns[i], relative(baseDir, file))

MatchesAbsolute(file, patterns) ==
    \E i \in 1..Len(patterns) : GlobTest(patterns[i], AbsName(file))

C8_IncludedMatchRelative ==
    Len(opts.include) > 0 =>
        \A f \in IncludedSet : MatchesRelative(f, opts.include)

(***************************************************************************)
(* C8, amended.  With a non-empty include list, every included file        *)
(* matches an include pattern by its path relative to the base directory   *)
(* or by its absolute path.                                                *)
(***************************************************************************)
C8_IncludedMatchRelativeOrAbsolute ==
    Len(opts.include) > 0 =>
        \A f \in IncludedSet :
            MatchesRelative(f, opts.include) \/ MatchesAbsolute(f, opts.include)

\* the include list dropped a file, kept one by its relative path and kept
\* another by its absolute path alone
C8_Witness ==
    /\ pc = "done"
    /\ Len(opts.include) > 0
    /\ ExcludedByFilter # {}
    /\ \E f \in IncludedSet : MatchesRelative(f, opts.include)
    /\ \E f \in IncludedSet : ~MatchesRelative(f, opts.include)

(***************************************************************************)
(* C9.  With a non-empty exclude list, no included file's relative path    *)
(* matches an exclude pattern, also when it matches an include pattern.    *)
(***************************************************************************)
C9_ExcludeDominates ==
    Len(opts.exclude) > 0 =>
        \A f \in IncludedSet : ~MatchesRelative(f, opts.exclude)

\* a file matching both lists was resolved, and the run included other files
C9_Witness ==
    /\ pc = "done"
    /\ Len(opts.include) > 0
    /\ Len(opts.exclude) > 0
    /\ IncludedSet # {}
    /\ \E f \in Range(allFiles) :
          /\ isTextFile(f)
          /\ MatchesRelative(f, opts.include)
          /\ MatchesRelative(f, opts.exclude)

(***************************************************************************)
(* C10.  At the end of a successful run: stdout holds the body exactly     *)
(* when neither --output nor --copy is set; with --output the file holds   *)
(* the body and nothing else; with --copy the clipboard process received   *)
(* the same body unless the hand-off failed and the failure was logged;    *)
(* and the summary was written to stderr once, whatever the sinks.         *)
(***************************************************************************)
C10_SinkRouting ==
    pc = "done" =>
        /\ result = BuildOutput(baseDir, filesToInclude)
        /\ stdout = IF opts.output = None /\ ~opts.copy THEN <<result>> ELSE <<>>
        /\ outFile = IF opts.output # None THEN <<result>> ELSE <<>>
        /\ opts.copy =>
              \/ clipboard = <<result>> /\ warnings = <<>>
              \/ "Failed to copy to clipboard" \in Range(warnings)
        /\ ~opts.copy => clipboard = <<>>
        /\ Len(summary) = 1
        /\ summary[1].files = Len(filesToInclude)
        /\ exitCode = <<0>>

\* a run with both sinks delivered a non-empty body to the file and the clipboard
C10_Witness ==
    /\ pc = "done"
    /\ opts.copy
    /\ opts.output # None
    /\ result # <<>>
    /\ outFile = <<result>>
    /\ clipboard = <<result>>
    /\ stdout = <<>>

(***************************************************************************)
(* C11.  A fatal error ends the run with code 1 before any sink is         *)
(* written: an invalid --maxSize never gets past parseMaxSize, a missing   *)
(* input path never gets past the resolution, a failed read never gets     *)
(* past the concatenation; and whenever stdout, the output file or the     *)
(* clipboard holds anything, the whole body had been assembled.            *)
(***************************************************************************)
NothingDelivered == stdout = <<>> /\ outFile = <<>> /\ clipboard = <<>>

C11_FatalBeforeSinks ==
    /\ pc = "exited" => exitCode = <<1>> /\ NothingDelivered /\ summary = <<>>
    /\ ~parseMaxSize(config.maxSize).ok =>
          pc \in {"parseMaxSize", "exited"} /\ allFiles = <<>>
    /\ (\E i \in 1..Len(config.paths) : ~Exists(resolve(config.paths[i]))) =>
          pc \in {"parseMaxSize", "resolve", "exited"} /\ filteredFiles = <<>>
    /\ ~NothingDelivered =>
          /\ pc \in {"write", "stdout", "done"}
          /\ result = BuildOutput(baseDir, filesToInclude)

\* a read failed during the concatenation of a run that asked for both sinks
C11_Witness ==
    /\ pc = "exited"
    /\ filesToInclude # <<>>
    /\ config.copy
    /\ config.output # None
    /\ NothingDelivered

(***************************************************************************)
(* C12.  A failed hand-off to the clipboard is logged and is not fatal:    *)
(* the run goes on to its other sinks and ends with code 0, and with       *)
(* --output the file holds the full body; with --copy nothing ends the run *)
(* once the summary is out.                                                *)
(***************************************************************************)
ClipboardFailed == "Failed to copy to clipboard" \in Range(warnings)

C12_ClipboardFailureNotFatal ==
    /\ (opts.copy /\ pc \in {"write", "stdout", "done"} /\ clipboard # <<result>>)
          => ClipboardFailed
    /\ ClipboardFailed => pc \in {"write", "stdout", "done"}
    /\ (opts.copy /\ summary # <<>>) => pc # "exited"
    /\ (ClipboardFailed /\ pc = "done") =>
          /\ exitCode = <<0>>
          /\ result = BuildOutput(baseDir, filesToInclude)
          /\ opts.output # None => outFile = <<result>>
          /\ stdout = <<>>

\* the write to the clipboard process failed half-way and the file was written
C12_Witness ==
    /\ pc = "done"
    /\ opts.copy
    /\ opts.output # None
    /\ ClipboardFailed
    /\ result # <<>>
    /\ clipboard # <<>>
    /\ clipboard # <<result>>
    /\ outFile = <<result>>

(***************************************************************************)
(* C16.  The resolved sequence holds no absolute path twice, and so no     *)
(* file has two sections in the output body.                               *)
(***************************************************************************)
Headers == SelectSeq(result, LAMBDA line : line.kind = "header")

C16_ResolvedDuplicateFree ==
    /\ \A i, j \in 1..Len(allFiles) : allFiles[i] = allFiles[j] => i = j
    /\ \A i, j \in 1..Len(Headers) : Headers[i].name = Headers[j].name => i = j

(***************************************************************************)
(* C18.  Nothing is reordered: each input appends to the resolved sequence *)
(* its own traversal in ascending lexicographic order, after what the      *)
(* inputs before it gave; the filtered sequence is a subsequence of the    *)
(* resolved one and the included sequence a subsequence of the filtered    *)
(* one; the sections of the body come in the order of the included         *)
(* sequence.                                                               *)
(***************************************************************************)
RECURSIVE IsSubseq(_, _)
IsSubseq(a, b) ==
    IF a = <<>> THEN TRUE
    ELSE IF b = <<>> THEN FALSE
    ELSE IF Head(a) = Head(b) THEN IsSubseq(Tail(a), Tail(b))
    ELSE IsSubseq(a, Tail(b))

Ascending(s) == \A i \in 1..(Len(s) - 1) : PathLess(s[i], s[i + 1])

C18_OrderKept ==
    /\ [](/\ IsSubseq(filteredFiles, allFiles)
          /\ IsSubseq(filesToInclude, filteredFiles)
          /\ IsSubseq(filesToInclude, allFiles)
          /\ Len(Headers) <= Len(filesToInclude)
          /\ \A i \in 1..Len(Headers) :
                Headers[i].name = DisplayName(baseDir, filesToInclude[i])
          /\ pc \in {"summary", "copy", "write", "stdout", "done"} =>
                Len(Headers) = Len(filesToInclude))
    /\ [][/\ IsPrefix(allFiles, allFiles')
          /\ pathIdx' # pathIdx =>
                LET input == resolve(config.paths[pathIdx'])
                    part == SubSeq(allFiles', Len(allFiles) + 1, Len(allFiles'))
                IN  /\ pathIdx' = pathIdx + 1
                    /\ Ascending(part)
                    /\ \A i \in 1..Len(part) : IsPrefix(input, part[i])
          /\ pathIdx' = pathIdx => allFiles' = allFiles]_vars

\* two inputs, a filter that removed a file, a skipped file, and a body of
\* three sections or more whose second input's files follow the first's
C18_Witness ==
    /\ pc = "done"
    /\ Len(config.paths) = 2
    /\ ExcludedByFilter # {}
    /\ skippedFiles # <<>>
    /\ Len(Headers) >= 3
    /\ \E i \in 1..(Len(filesToInclude) - 1) :
          PathLess(filesToInclude[i + 1], filesToInclude[i])

(***************************************************************************)
(* C19.  A file is classified binary exactly when its extension is in the  *)
(* binary set (whatever its case), or it cannot be read, or the zero bytes *)
(* are a tenth or more of its sample (its first 8000 bytes, all of it when *)
(* it is shorter); every other file, the empty one included, is text.  A   *)
(* file without bytes has no zero byte, and of no sample is any share made *)
(* up of zero bytes.                                                       *)
(***************************************************************************)
ZeroShareAtLeastTenth(sample) ==
    ByteLen(sample) > 0 /\ 10 * NullCount(sample) >= ByteLen(sample)

ClassifiedBinary(file) ==
    \/ Extension(file) \in BINARY_EXT
    \/ file \in Unreadable
    \/ ZeroShareAtLeastTenth(Slice(Content(file), SampleBytes))

C19_ClassifierByZeroShare ==
    \A k \in 1..Len(evaluated) :
        (evaluated[k].fate = "binary") <=> ClassifiedBinary(FileAt(evaluated[k].idx))

(***************************************************************************)
(* C20.  The body is one section per entry of the included sequence, in    *)
(* its order: the header with the display name, the content without its    *)
(* trailing whitespace, one blank line; no skipped, unprocessed, filtered  *)
(* out or binary file has a section; the summary's file count is the       *)
(* number of sections.                                                     *)
(***************************************************************************)
Unprocessed ==
    IF GateFinished
    THEN {filteredFiles[i] : i \in (fileIdx + 1)..Len(filteredFiles)}
    ELSE {}

BodyBuilt == pc \in {"summary", "copy", "write", "stdout", "done"}

C20_OneSectionPerIncluded ==
    BodyBuilt =>
       /\ Len(result) = 3 * Len(filesToInclude)
       /\ \A i \in 1..Len(filesToInclude) :
             LET file == filesToInclude[i]
                 content == result[3 * i - 1]
             IN  /\ result[3 * i - 2].kind = "header"
                 /\ result[3 * i - 2].name = DisplayName(baseDir, file)
                 /\ content.kind = "content"
                 /\ IsPrefix(content.text, Content(file))
                 /\ content.text # <<>> => Last(content.text).ch \notin Whitespace
                 /\ \A j \in (Len(content.text) + 1)..Len(Content(file)) :
                       Content(file)[j].ch \in Whitespace
                 /\ result[3 * i].kind = "blank"
       /\ \A file \in SkippedSet \cup Unprocessed \cup ExcludedByFilter
                        \cup ExcludedAsBinary : ~HasSection(file)
       /\ summary # <<>> => summary[1].files = Len(Headers)

(***************************************************************************)
(* C17.  The token estimate of a body of n characters is the least integer *)
(* that is at least n / 3.5, i.e. the least t with 7 t >= 2 n, and a model *)
(* is flagged as fitting exactly when the estimate is strictly below its   *)
(* limit: an estimate equal to the limit does not fit.                     *)
(***************************************************************************)
C17_TokenEstimateAndFit ==
    summary # <<>> =>
        LET n == StrLen(result)
            t == summary[1].tokens
        IN  /\ t \in Nat
            /\ 7 * t >= 2 * n
            /\ 7 * (t - 1) < 2 * n
            /\ \A model \in DOMAIN TOKEN_LIMITS :
                  summary[1].fits[model] <=> t < TOKEN_LIMITS[model]

\* a body whose length is no multiple of 3.5 and whose estimate is exactly
\* the limit of gpt3: flagged as not fitting gpt3, as fitting gpt4
C17_Witness ==
    /\ summary # <<>>
    /\ (2 * StrLen(result)) % 7 # 0
    /\ summary[1].tokens = TOKEN_LIMITS.gpt3
    /\ ~summary[1].fits.gpt3
    /\ summary[1].fits.gpt4

(***************************************************************************)
(* C13.  parseArgs takes "--maxSize v" and "--max-size v" alike: at either *)
(* spelling followed by a value it sets maxSize to that value and goes on  *)
(* behind it; and the options it returns for a command line with neither   *)
(* spelling have maxSize "100k".                                           *)
(***************************************************************************)
MaxSizeSpellings == {Arg(2, "maxSize"), Arg(2, "max-size")}

C13_BothSpellingsAccepted ==
    /\ []((pc = "returned" /\ \A k \in 1..Len(args) : args[k] \notin MaxSizeSpellings)
            => options.maxSize = Arg(0, "100k"))
    /\ [][(AtArg /\ CurrentArg \in MaxSizeSpellings /\ argIdx + 2 <= Len(args)) =>
            /\ pc' = "parseArgs"
            /\ argIdx' = argIdx + 2
            /\ options' = [options EXCEPT !.maxSize = args[argIdx + 2]]]_vars

(***************************************************************************)
(* C14.  The command line "--include p1 p2 dir" (patterns, then the path)  *)
(* is parsed into include = <<p1, p2>> and paths = <<dir>>: parseArgs      *)
(* returns and does not exit for a missing path.                           *)
(***************************************************************************)
C14_IncludeThenPath ==
    (/\ Len(args) = 4
     /\ args[1] = Arg(2, "include")
     /\ \A k \in 2..4 : ~startsWithDash(args[k])
     /\ pc # "parseArgs")
        => /\ pc = "returned"
           /\ options.include = <<args[2], args[3]>>
           /\ options.paths = <<args[4]>>

(***************************************************************************)
(* C15.  parseArgs returns options with one path or more, or ends the      *)
(* process: with code 0 at -h / --help / -v / --version, with code 1 at    *)
(* an option it does not know, at an option that needs a value and is the  *)
(* last argument, at --include / --exclude with no pattern behind it, and  *)
(* at the end of a command line that gave no path; in no other case does   *)
(* it end the process, and it always does one of the two.                  *)
(***************************************************************************)
InfoFlags == {Arg(1, "h"), Arg(2, "help"), Arg(1, "v"), Arg(2, "version")}

ValueFlags == {Arg(1, "o"), Arg(2, "output"), Arg(2, "max-size")}

ListFlags == {Arg(2, "include"), Arg(2, "exclude")}

PlainFlags == {Arg(2, "yes"), Arg(1, "c"), Arg(2, "copy")}

ArgumentError ==
    IF argIdx >= Len(args) THEN options.paths = <<>>
    ELSE \/ /\ startsWithDash(CurrentArg)
            /\ CurrentArg \notin InfoFlags \cup ValueFlags \cup ListFlags \cup PlainFlags
         \/ CurrentArg \in ValueFlags /\ argIdx + 1 = Len(args)
         \/ /\ CurrentArg \in ListFlags
            /\ (argIdx + 1 = Len(args) \/ startsWithDash(args[argIdx + 2]))

InfoRequest == argIdx < Len(args) /\ CurrentArg \in InfoFlags

C15_ReturnsPathsOrExits ==
    /\ [](/\ pc = "returned" => Len(options.paths) >= 1 /\ exitCode = <<>>
          /\ pc = "exited" =>
                \/ exitCode = <<0>> /\ InfoRequest
                \/ exitCode = <<1>> /\ ArgumentError
          /\ pc = "parseArgs" => ENABLED NextArgs)
    /\ [][pc = "parseArgs" =>
            /\ InfoRequest => (pc' = "exited" /\ exitCode' = <<0>>)
            /\ ArgumentError => (pc' = "exited" /\ exitCode' = <<1>>)
            /\ pc' = "returned" => (argIdx = Len(args) /\ options' = options)]_vars

\* returned with a path, a pattern list and a flag
C15_Witness ==
    /\ pc = "returned"
    /\ Len(options.paths) >= 1
    /\ options.include # <<>>
    /\ options.yes

(***************************************************************************)
(* C21.  The accounts of the size gate.  The candidates evaluated so far   *)
(* are the first fileIdx entries of the filtered sequence, taken one at a  *)
(* time in its order; each of them is in exactly one of included, skipped  *)
(* and dropped as binary, so the three counts add up to fileIdx at every   *)
(* point of the run; no candidate is asked about twice; and when the gate  *)
(* is over the three counts and the candidates left unprocessed, which     *)
(* there are only after a stop, add up to the length of the filtered       *)
(* sequence.                                                               *)
(***************************************************************************)
\* the candidates among the first k of the filtered sequence with a property
Positions(k, Test(_)) == {i \in 1..k : Test(filteredFiles[i])}

BinaryCount == Cardinality(Positions(fileIdx, LAMBDA file : ~isTextFile(file)))

\* the positions the gate gave a fate
FatePositions(fate) ==
    {k \in 1..Len(evaluated) : evaluated[k].fate = fate}

\* the entries of the filtered sequence at a set of positions, in its order
RECURSIVE Pick(_, _)
Pick(k, positions) ==
    IF k = 0 THEN <<>>
    ELSE Pick(k - 1, positions) \o
         (IF k \in positions THEN <<filteredFiles[k]>> ELSE <<>>)

Increasing(s) == \A i \in 1..(Len(s) - 1) : s[i] < s[i + 1]

GateAccounts ==
    /\ fileIdx \in 0..Len(filteredFiles)
    /\ Len(evaluated) = fileIdx
    /\ \A k \in 1..fileIdx :
          /\ evaluated[k].idx = k
          /\ evaluated[k].fate \in {"included", "skipped", "binary"}
          /\ evaluated[k].fate = "binary" <=> ~isTextFile(filteredFiles[k])
    /\ filesToInclude = Pick(fileIdx, FatePositions("included"))
    /\ LET declined == Pick(fileIdx, FatePositions("skipped"))
       IN  skippedFiles = [i \in 1..Len(declined) |-> DisplayName(baseDir, declined[i])]
    /\ Len(filesToInclude) + Len(skippedFiles) + BinaryCount = fileIdx
    /\ Increasing(prompts)
    /\ \A i \in 1..Len(prompts) : prompts[i] \in 1..fileIdx
    /\ pc \in {"parseMaxSize", "resolve", "include", "exclude"} => fileIdx = 0
    /\ GateFinished =>
          /\ Len(filesToInclude) + Len(skippedFiles) + BinaryCount
               + Cardinality((fileIdx + 1)..Len(filteredFiles)) = Len(filteredFiles)
          /\ fileIdx < Len(filteredFiles) =>
                AnsweredSkip /\ Last(prompts) = fileIdx

OneAtATime ==
    /\ fileIdx' \in {fileIdx, fileIdx + 1}
    /\ fileIdx' = fileIdx =>
          UNCHANGED <<filesToInclude, skippedFiles, evaluated, prompts>>
    /\ fileIdx' = fileIdx + 1 =>
          /\ pc = "gate"
          /\ filteredFiles' = filteredFiles
          /\ Len(prompts') <= Len(prompts) + 1
          /\ LET file == filteredFiles[fileIdx + 1]
                 name == DisplayName(baseDir, file)
             IN  \/ /\ filesToInclude' = Append(filesToInclude, file)
                    /\ skippedFiles' = skippedFiles
                    /\ isTextFile(file)
                 \/ /\ filesToInclude' = filesToInclude
                    /\ skippedFiles' = Append(skippedFiles, name)
                    /\ isTextFile(file)
                 \/ /\ filesToInclude' = filesToInclude
                    /\ skippedFiles' = skippedFiles
                    /\ ~isTextFile(file)

C21_GateAccounting == []GateAccounts /\ [][OneAtATime]_vars

\* a finished run with included, skipped, binary and unprocessed candidates
C21_Witness ==
    /\ pc = "done"
    /\ filesToInclude # <<>>
    /\ skippedFiles # <<>>
    /\ BinaryCount > 0
    /\ fileIdx < Len(filteredFiles)
    /\ Len(prompts) >= 2

====
